---- MODULE Spec2Model ----
(***************************************************************************)
(* Model of fixedincomelib/market/registries.py: the five registries       *)
(* IndexRegistry, IndexFixingsManager, DataConventionRegFunction,          *)
(* DataConventionRegistry and DataIdentifierRegistry.                      *)
(*                                                                         *)
(* Strings whose letter case matters (registry keys) are sequences of      *)
(* one-character strings, so that upper(), lower() and split('-') are      *)
(* computed rather than assumed.  A Python dict that is iterated is a      *)
(* sequence of [k, v] entries in insertion order.                          *)
(***************************************************************************)
EXTENDS Integers, Sequences, FiniteSets, TLC

VARIABLES
    idxMap,      \* IndexRegistry._map
    fixMap,      \* IndexFixingsManager._map
    anonMap,     \* the store of namespace '': DataConventionRegFunction and DataIdentifierRegistry
    convMap,     \* DataConventionRegistry._map
    nextId,      \* identity of the next object the analytics library constructs
    callerSpec,  \* the dict the caller handed to DataConventionRegistry.register, after the call
    last,        \* the last call: registry, operation, key, arguments and how it ended
    erased,      \* the fixings indices erased by remove_fixing(index) and not registered since
    nOps         \* number of calls made so far

vars == <<idxMap, fixMap, anonMap, convMap, nextId, callerSpec, last, erased, nOps>>

\* the namespace each class hands to Registry.__new__; a store belongs to a namespace
Namespace ==
    [index |-> "indices", fixings |-> "fixings", function |-> "",
     convention |-> "data_conventions", identifier |-> ""]

\* Registry.__new__(cls, namespace, name): the store of the namespace
Registry_new(namespace) ==
    CASE namespace = "indices" -> idxMap
      [] namespace = "fixings" -> fixMap
      [] namespace = "data_conventions" -> convMap
      [] namespace = "" -> anonMap

\* DataConventionRegFunction()._map and DataIdentifierRegistry()._map
funMap == Registry_new(Namespace.function)

idMap == Registry_new(Namespace.identifier)

\* ------------------------------------------------------------------ bounds
\* the number of calls made in a run of each specification
MaxIndexOps == 5
MaxFixingOps == 3
MaxConvOps == 5
MaxOps == 2

\* ------------------------------------------------------------------ str methods
UpperChar(c) ==
    CASE c = "a" -> "A"
      [] c = "l" -> "L"
      [] c = "s" -> "S"
      [] c = "n" -> "N"
      [] c = "b" -> "B"
      [] c = "m" -> "M"
      [] OTHER -> c

LowerChar(c) ==
    CASE c = "A" -> "a"
      [] c = "L" -> "l"
      [] c = "S" -> "s"
      [] c = "N" -> "n"
      [] c = "B" -> "b"
      [] c = "M" -> "m"
      [] OTHER -> c

Upper(s) == [i \in 1..Len(s) |-> UpperChar(s[i])]

Lower(s) == [i \in 1..Len(s) |-> LowerChar(s[i])]

\* str(key).split('-')[-1]: what follows the last '-', the whole string if there is none
LastField(s) ==
    LET dashes == {i \in 1..Len(s) : s[i] = "-"}
        from == IF dashes = {} THEN 1
                ELSE (CHOOSE i \in dashes : \A j \in dashes : j <= i) + 1
    IN  SubSeq(s, from, Len(s))

\* ------------------------------------------------------------------ dict
Has(m, k) == \E i \in 1..Len(m) : m[i].k = k

Lookup(m, k) == m[CHOOSE i \in 1..Len(m) : m[i].k = k].v

\* m[k] = v: an existing key keeps its position, a new key goes last
Put(m, k, v) ==
    IF Has(m, k)
    THEN [i \in 1..Len(m) |-> IF m[i].k = k THEN [k |-> k, v |-> v] ELSE m[i]]
    ELSE Append(m, [k |-> k, v |-> v])

Del(m, k) == SelectSeq(m, LAMBDA e : e.k # k)

\* ------------------------------------------------------------------ Registry (base)
Registry_register(m, key, value) ==
    IF Has(m, key)
    THEN [err |-> "DuplicateKey", m |-> m]
    ELSE [err |-> "ok", m |-> Put(m, key, value)]

Registry_get(m, key) ==
    IF Has(m, key)
    THEN [err |-> "ok", v |-> Lookup(m, key)]
    ELSE [err |-> "NotFound"]

Registry_erase(m, key) ==
    IF Has(m, key)
    THEN [err |-> "ok", m |-> Del(m, key)]
    ELSE [err |-> "NotFound", m |-> m]

\* ------------------------------------------------------------------ IndexRegistry
K_a    == <<"a">>
K_A    == <<"A">>
K_l3M  == <<"l", "-", "3", "M">>
K_L3M  == <<"L", "-", "3", "M">>
IndexKeys == {K_a, K_A, K_l3M, K_L3M}

\* names handed to getattr(ql, value): a parameterless index class, a class that
\* needs a Period, and a name the library does not have
NoArgTypes == {"Sofr"}
TenorTypes == {"USDLibor"}
QlCatalog  == NoArgTypes \cup TenorTypes
TypeNames  == QlCatalog \cup {"Nope"}

\* TermOrTerminationDate(tenor).is_term()
is_term(s) == s \in {<<"3", "M">>}

RawType(t) == [kind |-> "raw", type |-> t, tenor |-> <<>>, id |-> 0]

QlIndex(t, tenor, id) == [kind |-> "index", type |-> t, tenor |-> tenor, id |-> id]

\* index.name()
IndexName(ix) == <<ix.type, ix.tenor>>

\* the calls register makes on the analytics library, in order: "getattr" (line 23),
\* "ql_object()" (line 28), "is_term" (line 32), "ql_object(Period)" (line 34)
\* faulty variant: lines 32-33 are dropped, the tenor construction is always attempted
IndexRegistry_register_NoTermCheck(m, id, key, value) ==
    LET base == Registry_register(m, key, RawType(value)) IN
    IF base.err # "ok"
    THEN [err |-> base.err, m |-> m, id |-> id, calls |-> <<>>]
    ELSE IF value \notin QlCatalog
    THEN [err |-> "UnknownIndexType", m |-> base.m, id |-> id, calls |-> <<"getattr">>]
    ELSE IF value \in NoArgTypes
    THEN [err |-> "ok", m |-> Put(base.m, Upper(key), QlIndex(value, <<>>, id)), id |-> id + 1,
          calls |-> <<"getattr", "ql_object()">>]
    ELSE LET tenor == LastField(key) IN
         IF ~is_term(tenor)
         THEN [err |-> "PeriodError", m |-> base.m, id |-> id,
               calls |-> <<"getattr", "ql_object()", "ql_object(Period)">>]
         ELSE [err |-> "ok", m |-> Put(base.m, key, QlIndex(value, tenor, id)), id |-> id + 1,
               calls |-> <<"getattr", "ql_object()", "ql_object(Period)">>]

IndexRegistry_register_result(m, id, key, value) ==
    LET base == Registry_register(m, key, RawType(value)) IN
    IF base.err # "ok"
    THEN [err |-> base.err, m |-> m, id |-> id, calls |-> <<>>]
    ELSE IF value \notin QlCatalog
    THEN [err |-> "UnknownIndexType", m |-> base.m, id |-> id, calls |-> <<"getattr">>]
    ELSE IF value \in NoArgTypes
    THEN [err |-> "ok", m |-> Put(base.m, Upper(key), QlIndex(value, <<>>, id)), id |-> id + 1,
          calls |-> <<"getattr", "ql_object()">>]
    ELSE LET tenor == LastField(key) IN
         IF ~is_term(tenor)
         THEN [err |-> "ConstructionError", m |-> base.m, id |-> id,
               calls |-> <<"getattr", "ql_object()", "is_term">>]
         ELSE [err |-> "ok", m |-> Put(base.m, key, QlIndex(value, tenor, id)), id |-> id + 1,
               calls |-> <<"getattr", "ql_object()", "is_term", "ql_object(Period)">>]

IndexRegistry_get(m, key) ==
    IF ~Has(m, Upper(key))
    THEN [err |-> "NotFound"]
    ELSE [err |-> "ok", v |-> Lookup(m, Upper(key))]

\* the loop of look_up_index_name from entry i on: v.name() of a str raises
\* AttributeError, the first entry whose name matches ends the scan
RECURSIVE look_up_index_name_from(_, _, _)
look_up_index_name_from(m, name, i) ==
    IF i > Len(m)
    THEN [err |-> "NotFound"]
    ELSE IF m[i].v.kind # "index"
    THEN [err |-> "AttributeError"]
    ELSE IF name = IndexName(m[i].v)
    THEN [err |-> "ok", k |-> m[i].k]
    ELSE look_up_index_name_from(m, name, i + 1)

IndexRegistry_look_up_index_name(m, name) == look_up_index_name_from(m, name, 1)

\* display_all_indices: a row [k, self.get(k).name()] per entry; the first entry whose
\* get or name() raises ends the loop
IndexRegistry_display_all_indices(m) ==
    LET bad == {i \in 1..Len(m) :
                   \/ IndexRegistry_get(m, m[i].k).err # "ok"
                   \/ IndexRegistry_get(m, m[i].k).v.kind # "index"}
    IN  IF bad = {}
        THEN [err |-> "ok",
              rows |-> [i \in 1..Len(m) |-> <<m[i].k, IndexName(IndexRegistry_get(m, m[i].k).v)>>]]
        ELSE LET i == CHOOSE b \in bad : \A c \in bad : b <= c IN
             IF IndexRegistry_get(m, m[i].k).err # "ok"
             THEN [err |-> "NotFound"]
             ELSE [err |-> "AttributeError"]

IndexRegistry_register(key, value) ==
    /\ LET r == IndexRegistry_register_result(idxMap, nextId, key, value) IN
       /\ idxMap' = r.m
       /\ nextId' = r.id
       /\ last' = [reg |-> "index", op |-> "register", key |-> key, arg |-> r.calls, err |-> r.err]
    /\ UNCHANGED <<fixMap, anonMap, convMap, callerSpec, erased>>

IndexRegistry_erase(key) ==
    /\ LET r == Registry_erase(idxMap, key) IN
       /\ idxMap' = r.m
       /\ last' = [reg |-> "index", op |-> "erase", key |-> key, arg |-> <<>>, err |-> r.err]
    /\ UNCHANGED <<fixMap, anonMap, convMap, nextId, callerSpec, erased>>

\* ------------------------------------------------------------------ IndexFixingsManager
K_s == <<"s">>
K_S == <<"S">>
K_n == <<"n">>
K_N == <<"N">>
K_b == <<"b">>
FixingKeys == {K_s, K_S, K_n, K_N, K_b}

\* the files under _fixing_path, by file name without ".csv": s.csv is well formed,
\* b.csv has a good row followed by a row whose fixing is no number, n.csv does not exist
CsvFiles ==
    [x \in {K_s, K_b} |->
        IF x = K_s
        THEN << [date |-> "2020-01-01", fixing |-> "1.25"],
                [date |-> "2020-01-02", fixing |-> "1.30"] >>
        ELSE << [date |-> "2020-01-01", fixing |-> "1.25"],
                [date |-> "2020-01-02", fixing |-> "abc"] >>]

\* os.path.exists(this_path)
path_exists(name) == name \in DOMAIN CsvFiles

\* Date(dt.datetime.strptime(s, '%Y-%m-%d').date()): the day of January 2020, 0 for ValueError
ParseDate(s) ==
    CASE s = "2020-01-01" -> 1
      [] s = "2020-01-02" -> 2
      [] OTHER -> 0

\* float(s) in hundredths, -1 for ValueError
ParseFloat(s) ==
    CASE s = "1.25" -> 125
      [] s = "1.30" -> 130
      [] OTHER -> -1

Dates == {1, 2}
Fixings == {125, 777}

\* values a caller passes as register's second argument: a new empty dict, or None
EmptyDict  == [kind |-> "dict", s |-> {}]
NoneValue  == [kind |-> "none", s |-> {}]
FixingValues == {NoneValue, EmptyDict}

\* a date -> fixing dict is the set of its <<date, fixing>> items
InDict(s, d) == \E p \in s : p[1] = d

GetItem(s, d) == (CHOOSE p \in s : p[1] = d)[2]

SetItem(s, d, x) == {p \in s : p[1] # d} \cup {<<d, x>>}

PopItem(s, d) == {p \in s : p[1] # d}

\* the loop of lines 72-74 from row i on; K is key.upper()
RECURSIVE LoadRows(_, _, _, _)
LoadRows(m, K, rows, i) ==
    IF i > Len(rows)
    THEN [err |-> "ok", m |-> m]
    ELSE LET d == ParseDate(rows[i].date)
             x == ParseFloat(rows[i].fixing)
             m1 == IF Has(m, K) THEN m ELSE Put(m, K, EmptyDict)   \* setdefault(K, {})
             cur == Lookup(m1, K)
         IN  IF d = 0 \/ x = -1
             THEN [err |-> "MalformedRecord", m |-> m]
             ELSE IF cur.kind # "dict"
             THEN [err |-> "TypeError", m |-> m1]
             ELSE LoadRows(Put(m1, K, [kind |-> "dict", s |-> SetItem(cur.s, d, x)]), K, rows, i + 1)

IndexFixingsManager_register_result(m, key, value) ==
    LET base == Registry_register(m, key, value) IN
    IF base.err # "ok"
    THEN [err |-> base.err, m |-> m]
    ELSE IF path_exists(Lower(key))
    THEN LoadRows(base.m, Upper(key), CsvFiles[Lower(key)], 1)
    ELSE [err |-> "ok", m |-> base.m]

\* faulty variant: the test of line 78 is dropped, the date is always written
IndexFixingsManager_insert_fixing_Overwrite(m, index, date, fixing) ==
    LET got == Registry_get(m, Lower(index)) IN
    IF got.err # "ok"
    THEN [err |-> got.err, m |-> m]
    ELSE IF got.v.kind # "dict"
    THEN [err |-> "TypeError", m |-> m]
    ELSE [err |-> "ok",
          m |-> Put(m, Lower(index), [kind |-> "dict", s |-> SetItem(got.v.s, date, fixing)])]

IndexFixingsManager_insert_fixing_result(m, index, date, fixing) ==
    LET got == Registry_get(m, Lower(index)) IN
    IF got.err # "ok"
    THEN [err |-> got.err, m |-> m]
    ELSE IF got.v.kind # "dict"
    THEN [err |-> "TypeError", m |-> m]
    ELSE IF InDict(got.v.s, date)
    THEN [err |-> "ok", m |-> m]
    ELSE [err |-> "ok",
          m |-> Put(m, Lower(index), [kind |-> "dict", s |-> SetItem(got.v.s, date, fixing)])]

IndexFixingsManager_exist_fixing(m, index, date) ==
    LET got == Registry_get(m, Lower(index)) IN
    IF got.err # "ok"
    THEN [err |-> got.err]
    ELSE IF got.v.kind # "dict"
    THEN [err |-> "TypeError"]
    ELSE [err |-> "ok", v |-> InDict(got.v.s, date)]

IndexFixingsManager_get_fixing(m, index, date) ==
    LET got == Registry_get(m, Lower(index)) IN
    IF got.err # "ok"
    THEN [err |-> got.err]
    ELSE IF got.v.kind # "dict"
    THEN [err |-> "TypeError"]
    ELSE IF InDict(got.v.s, date)
    THEN [err |-> "ok", v |-> GetItem(got.v.s, date)]
    ELSE [err |-> "NotFound"]

\* date = 0 stands for date=None
IndexFixingsManager_remove_fixing_result(m, index, date) ==
    IF date = 0
    THEN Registry_erase(m, index)
    ELSE LET got == Registry_get(m, index) IN
         IF got.err # "ok"
         THEN [err |-> got.err, m |-> m]
         ELSE IF got.v.kind # "dict"
         THEN [err |-> "AttributeError", m |-> m]
         ELSE IF ~InDict(got.v.s, date)
         THEN [err |-> "KeyError", m |-> m]
         ELSE [err |-> "ok", m |-> Put(m, index, [kind |-> "dict", s |-> PopItem(got.v.s, date)])]

IndexFixingsManager_register(key, value) ==
    /\ LET r == IndexFixingsManager_register_result(fixMap, key, value) IN
       /\ fixMap' = r.m
       /\ last' = [reg |-> "fixings", op |-> "register", key |-> key, arg |-> <<>>, err |-> r.err]
       /\ erased' = IF r.err = "ok" THEN erased \ {key} ELSE erased
    /\ UNCHANGED <<idxMap, anonMap, convMap, nextId, callerSpec>>

IndexFixingsManager_insert_fixing(index, date, fixing) ==
    /\ LET r == IndexFixingsManager_insert_fixing_result(fixMap, index, date, fixing) IN
       /\ fixMap' = r.m
       /\ last' = [reg |-> "fixings", op |-> "insert_fixing", key |-> index,
                   arg |-> <<date, fixing>>, err |-> r.err]
    /\ UNCHANGED <<idxMap, anonMap, convMap, nextId, callerSpec, erased>>

IndexFixingsManager_remove_fixing(index, date) ==
    /\ LET r == IndexFixingsManager_remove_fixing_result(fixMap, index, date) IN
       /\ fixMap' = r.m
       /\ last' = [reg |-> "fixings", op |-> IF date = 0 THEN "erase" ELSE "remove_fixing",
                   key |-> index, arg |-> <<date>>, err |-> r.err]
       /\ erased' = IF date = 0 /\ r.err = "ok" THEN erased \cup {index} ELSE erased
    /\ UNCHANGED <<idxMap, anonMap, convMap, nextId, callerSpec>>

\* ------------------------------------------------------------------ DataConventionRegFunction
ConvTypes == {"Actual360", "Thirty360"}
Constructors == {"make_a", "make_b"}

DataConventionRegFunction_register_result(m, key, value) ==
    LET base == Registry_register(m, key, value) IN
    IF base.err # "ok"
    THEN [err |-> base.err, m |-> m]
    ELSE [err |-> "ok", m |-> Put(base.m, key, value)]

DataConventionRegFunction_register(key, value) ==
    /\ LET r == DataConventionRegFunction_register_result(funMap, key, value) IN
       /\ anonMap' = r.m
       /\ last' = [reg |-> "function", op |-> "register", key |-> <<key>>, arg |-> <<>>, err |-> r.err]
    /\ UNCHANGED <<idxMap, fixMap, convMap, nextId, callerSpec, erased>>

DataConventionRegFunction_erase(key) ==
    /\ LET r == Registry_erase(funMap, key) IN
       /\ anonMap' = r.m
       /\ last' = [reg |-> "function", op |-> "erase", key |-> <<key>>, arg |-> <<>>, err |-> r.err]
    /\ UNCHANGED <<idxMap, fixMap, convMap, nextId, callerSpec, erased>>

\* ------------------------------------------------------------------ DataConventionRegistry
ConvKeys == {"30/360", "ACT/360"}

\* the mappings a caller passes as spec, each the set of its <<field, value>> items:
\* a complete one, one without "type", one whose type has no constructor
SpecFull    == {<<"type", "Actual360">>, <<"other_field", "7">>}
SpecNoType  == {<<"other_field", "7">>}
SpecUnknown == {<<"type", "Nope360">>, <<"other_field", "7">>}
ConvSpecs   == {SpecFull, SpecNoType, SpecUnknown}

RawSpec(d) == [kind |-> "raw", ctor |-> "", key |-> "", fields |-> d]

\* what func(key, value_) returns: the constructor and the arguments it was called with
Convention(func, key, d) == [kind |-> "convention", ctor |-> func, key |-> key, fields |-> d]

\* value.copy(): the two dict objects of a call are "caller" (the argument) and
\* "copy"; h gives each object's items, ref names the object copied
\* faulty variant: value_ = value, no copy is made
dict_copy_Alias(h, ref) == [ref |-> ref, h |-> h]

dict_copy(h, ref) == [ref |-> "copy", h |-> [h EXCEPT !["copy"] = h[ref]]]

\* the calls register makes after the base registration, in order: "get" is
\* DataConventionRegFunction().get(type) (line 120), "func" is func(key, value_) (line 121)
\* faulty variant: line 119 is dropped, "type" stays among the fields given to the constructor
DataConventionRegistry_register_NoPop(m, fm, key, value) ==
    LET c     == dict_copy([caller |-> value, copy |-> {}], "caller")
        value_ == c.ref
        base  == Registry_register(m, key, RawSpec(c.h[value_]))
    IN  IF base.err # "ok"
        THEN [err |-> base.err, m |-> m, caller |-> c.h["caller"], calls |-> <<>>]
        ELSE IF ~InDict(c.h[value_], "type")
        THEN [err |-> "MissingField", m |-> base.m, caller |-> c.h["caller"], calls |-> <<>>]
        ELSE LET func == Registry_get(fm, GetItem(c.h[value_], "type")) IN
             IF func.err # "ok"
             THEN [err |-> func.err, m |-> base.m, caller |-> c.h["caller"], calls |-> <<"get">>]
             ELSE IF func.v \notin Constructors
             THEN [err |-> "TypeError", m |-> base.m, caller |-> c.h["caller"],
                   calls |-> <<"get", "func">>]
             ELSE [err |-> "ok",
                   m |-> Put(base.m, key, Convention(func.v, key, c.h[value_])),
                   caller |-> c.h["caller"],
                   calls |-> <<"get", "func">>]

\* faulty variant: the type is read with value_.pop('type', None), so a spec without
\* "type" reaches the lookup of line 120
DataConventionRegistry_register_PopDefault(m, fm, key, value) ==
    LET c     == dict_copy([caller |-> value, copy |-> {}], "caller")
        value_ == c.ref
        base  == Registry_register(m, key, RawSpec(c.h[value_]))
    IN  IF base.err # "ok"
        THEN [err |-> base.err, m |-> m, caller |-> c.h["caller"], calls |-> <<>>]
        ELSE IF ~InDict(c.h[value_], "type")
        THEN [err |-> "NotFound", m |-> base.m, caller |-> c.h["caller"], calls |-> <<"get">>]
        ELSE LET type == GetItem(c.h[value_], "type")
                 h1   == [c.h EXCEPT ![value_] = PopItem(@, "type")]
                 m1   == Put(base.m, key, RawSpec(h1[value_]))
                 func == Registry_get(fm, type)
             IN  IF func.err # "ok"
                 THEN [err |-> func.err, m |-> m1, caller |-> h1["caller"], calls |-> <<"get">>]
                 ELSE IF func.v \notin Constructors
                 THEN [err |-> "TypeError", m |-> m1, caller |-> h1["caller"],
                       calls |-> <<"get", "func">>]
                 ELSE [err |-> "ok",
                       m |-> Put(m1, key, Convention(func.v, key, h1[value_])),
                       caller |-> h1["caller"],
                       calls |-> <<"get", "func">>]

DataConventionRegistry_register_result(m, fm, key, value) ==
    LET c     == dict_copy([caller |-> value, copy |-> {}], "caller")
        value_ == c.ref
        base  == Registry_register(m, key, RawSpec(c.h[value_]))
    IN  IF base.err # "ok"
        THEN [err |-> base.err, m |-> m, caller |-> c.h["caller"], calls |-> <<>>]
        ELSE IF ~InDict(c.h[value_], "type")
        THEN [err |-> "MissingField", m |-> base.m, caller |-> c.h["caller"], calls |-> <<>>]
        ELSE LET type == GetItem(c.h[value_], "type")
                 h1   == [c.h EXCEPT ![value_] = PopItem(@, "type")]
                 \* the object stored by the base registration is value_ itself
                 m1   == Put(base.m, key, RawSpec(h1[value_]))
                 func == Registry_get(fm, type)
             IN  IF func.err # "ok"
                 THEN [err |-> func.err, m |-> m1, caller |-> h1["caller"], calls |-> <<"get">>]
                 ELSE IF func.v \notin Constructors
                 THEN [err |-> "TypeError", m |-> m1, caller |-> h1["caller"],
                       calls |-> <<"get", "func">>]
                 ELSE [err |-> "ok",
                       m |-> Put(m1, key, Convention(func.v, key, h1[value_])),
                       caller |-> h1["caller"],
                       calls |-> <<"get", "func">>]

DataConventionRegistry_register(key, value) ==
    /\ LET r == DataConventionRegistry_register_result(convMap, funMap, key, value) IN
       /\ convMap' = r.m
       /\ callerSpec' = r.caller
       /\ last' = [reg |-> "convention", op |-> "register", key |-> <<key>>, arg |-> r.calls, err |-> r.err]
    /\ UNCHANGED <<idxMap, fixMap, anonMap, nextId, erased>>

DataConventionRegistry_erase(key) ==
    /\ LET r == Registry_erase(convMap, key) IN
       /\ convMap' = r.m
       /\ last' = [reg |-> "convention", op |-> "erase", key |-> <<key>>, arg |-> <<>>, err |-> r.err]
    /\ UNCHANGED <<idxMap, fixMap, anonMap, nextId, callerSpec, erased>>

\* ------------------------------------------------------------------ DataIdentifierRegistry
\* one of the keys is also a key of DataConventionRegFunction
IdentKeys == {"id1", "Actual360"}
IdentValues == {"v1", "v2"}

\* faulty variant: line 137 stores the key in place of the value
DataIdentifierRegistry_register_StoreKey(m, key, value) ==
    LET base == Registry_register(m, key, value) IN
    IF base.err # "ok"
    THEN [err |-> base.err, m |-> m]
    ELSE [err |-> "ok", m |-> Put(base.m, key, key)]

\* faulty variant: the call of super().register (line 136) is dropped
DataIdentifierRegistry_register_NoSuper(m, key, value) ==
    [err |-> "ok", m |-> Put(m, key, value)]

DataIdentifierRegistry_register_result(m, key, value) ==
    LET base == Registry_register(m, key, value) IN
    IF base.err # "ok"
    THEN [err |-> base.err, m |-> m]
    ELSE [err |-> "ok", m |-> Put(base.m, key, value)]

DataIdentifierRegistry_register(key, value) ==
    /\ LET r == DataIdentifierRegistry_register_result(idMap, key, value) IN
       /\ anonMap' = r.m
       /\ last' = [reg |-> "identifier", op |-> "register", key |-> <<key>>, arg |-> <<>>, err |-> r.err]
    /\ UNCHANGED <<idxMap, fixMap, convMap, nextId, callerSpec, erased>>

DataIdentifierRegistry_erase(key) ==
    /\ LET r == Registry_erase(idMap, key) IN
       /\ anonMap' = r.m
       /\ last' = [reg |-> "identifier", op |-> "erase", key |-> <<key>>, arg |-> <<>>, err |-> r.err]
    /\ UNCHANGED <<idxMap, fixMap, convMap, nextId, callerSpec, erased>>

\* ------------------------------------------------------------------ specifications
Init ==
    /\ idxMap = <<>>
    /\ fixMap = <<>>
    /\ anonMap = <<>>
    /\ convMap = <<>>
    /\ nextId = 1
    /\ callerSpec = {}
    /\ last = [reg |-> "", op |-> "", key |-> <<>>, arg |-> <<>>, err |-> ""]
    /\ erased = {}
    /\ nOps = 0

\* one more call, while fewer than max were made
Tick(max) == nOps < max /\ nOps' = nOps + 1

IndexRegisterStep(max) ==
    \E key \in IndexKeys, value \in TypeNames : IndexRegistry_register(key, value) /\ Tick(max)

IndexEraseStep(max) ==
    \E key \in IndexKeys : IndexRegistry_erase(key) /\ Tick(max)

FixingsRegisterStep(max) ==
    \E key \in FixingKeys, value \in FixingValues :
        IndexFixingsManager_register(key, value) /\ Tick(max)

FixingsInsertStep(max) ==
    \E index \in FixingKeys, date \in Dates, fixing \in Fixings :
        IndexFixingsManager_insert_fixing(index, date, fixing) /\ Tick(max)

FixingsRemoveStep(max) ==
    \E index \in FixingKeys, date \in Dates \cup {0} :
        IndexFixingsManager_remove_fixing(index, date) /\ Tick(max)

FunctionRegisterStep(max) ==
    \E key \in ConvTypes, value \in Constructors :
        DataConventionRegFunction_register(key, value) /\ Tick(max)

FunctionEraseStep(max) ==
    \E key \in ConvTypes : DataConventionRegFunction_erase(key) /\ Tick(max)

ConventionRegisterStep(max) ==
    \E key \in ConvKeys, value \in ConvSpecs :
        DataConventionRegistry_register(key, value) /\ Tick(max)

ConventionEraseStep(max) ==
    \E key \in ConvKeys : DataConventionRegistry_erase(key) /\ Tick(max)

IdentifierRegisterStep(max) ==
    \E key \in IdentKeys, value \in IdentValues :
        DataIdentifierRegistry_register(key, value) /\ Tick(max)

IdentifierEraseStep(max) ==
    \E key \in IdentKeys : DataIdentifierRegistry_erase(key) /\ Tick(max)

\* IndexRegistry alone
IndexNext ==
    \/ IndexRegisterStep(MaxIndexOps)
    \/ IndexEraseStep(MaxIndexOps)

SpecIndex == Init /\ [][IndexNext]_vars

\* IndexFixingsManager alone
FixingsNext ==
    \/ FixingsRegisterStep(MaxFixingOps)
    \/ FixingsInsertStep(MaxFixingOps)
    \/ FixingsRemoveStep(MaxFixingOps)

SpecFixings == Init /\ [][FixingsNext]_vars

\* DataConventionRegistry with its factory registry DataConventionRegFunction
ConventionNext ==
    \/ FunctionRegisterStep(MaxConvOps)
    \/ FunctionEraseStep(MaxConvOps)
    \/ ConventionRegisterStep(MaxConvOps)
    \/ ConventionEraseStep(MaxConvOps)

SpecConvention == Init /\ [][ConventionNext]_vars

\* register and erase of all five registries, interleaved
Next ==
    \/ IndexRegisterStep(MaxOps)
    \/ IndexEraseStep(MaxOps)
    \/ FixingsRegisterStep(MaxOps)
    \/ FixingsRemoveStep(MaxOps)
    \/ FunctionRegisterStep(MaxOps)
    \/ FunctionEraseStep(MaxOps)
    \/ ConventionRegisterStep(MaxOps)
    \/ ConventionEraseStep(MaxOps)
    \/ IdentifierRegisterStep(MaxOps)
    \/ IdentifierEraseStep(MaxOps)

Spec == Init /\ [][Next]_vars

\* ------------------------------------------------------------------ claims
\* the five stores by registry, and a call's key as the store holds it
Stores ==
    [index |-> idxMap, fixings |-> fixMap, function |-> funMap,
     convention |-> convMap, identifier |-> idMap]

KeyOf(call) == IF call.reg \in {"index", "fixings"} THEN call.key ELSE call.key[1]

\* get(key) of the registry: IndexRegistry overrides it, the others inherit the base's
GetOf(st, reg, key) ==
    IF reg = "index" THEN IndexRegistry_get(st[reg], key) ELSE Registry_get(st[reg], key)

FailedAfterDuplicateCheck(call) ==
    /\ call.op = "register"
    /\ call.reg \in {"index", "fixings", "convention"}
    /\ call.err \notin {"", "ok", "DuplicateKey"}

\* C1: a register call of IndexRegistry, IndexFixingsManager or DataConventionRegistry
\* that raises after the duplicate check leaves the registry exactly as it was: the
\* stores are unchanged, so the key is still absent
C1_FailedRegisterLeavesRegistryUnchanged ==
    [][FailedAfterDuplicateCheck(last')
           => /\ idxMap' = idxMap
              /\ fixMap' = fixMap
              /\ convMap' = convMap
              /\ ~Has(Stores'[last'.reg], KeyOf(last'))]_vars

\* C2: after a successful IndexRegistry.register(k, type_name), get(k') succeeds for
\* every case variant k' of k and returns the index object that call constructed
C2_GetFindsIndexUnderEveryCasing ==
    (last.reg = "index" /\ last.op = "register" /\ last.err = "ok")
        => \A k2 \in IndexKeys :
               Upper(k2) = Upper(last.key)
                   => LET got == IndexRegistry_get(idxMap, k2) IN
                      /\ got.err = "ok"
                      /\ got.v.kind = "index"
                      /\ got.v.id = nextId - 1

\* C3: in every registry, register on a key that is already in the store fails with
\* DuplicateKey and leaves what get(key) returns unchanged
C3_RegisterOnPresentKeyIsDuplicate ==
    [][(last'.op = "register" /\ Has(Stores[last'.reg], KeyOf(last')))
           => /\ last'.err = "DuplicateKey"
              /\ GetOf(Stores', last'.reg, KeyOf(last')) = GetOf(Stores, last'.reg, KeyOf(last'))]_vars

\* a key that DataConventionRegistry's store holds was registered again and refused
C3_Witness ==
    /\ last.op = "register"
    /\ last.err = "DuplicateKey"
    /\ last.reg = "convention"
    /\ Has(convMap, KeyOf(last))

FileItems(name) ==
    {<<ParseDate(CsvFiles[name][i].date), ParseFloat(CsvFiles[name][i].fixing)>> :
        i \in 1..Len(CsvFiles[name])}

\* C5: after IndexFixingsManager.register(key, _) with an existing file, for every
\* row (d, v) exist_fixing(index, d) is true and get_fixing(index, d) returns v, for
\* index the key as registered or lower-cased; exist_fixing is false for other dates
C5_LoadedFixingsAreVisible ==
    (/\ last.reg = "fixings"
     /\ last.op = "register"
     /\ last.err = "ok"
     /\ path_exists(Lower(last.key)))
        => \A index \in {last.key, Lower(last.key)}, d \in Dates :
               LET exist == IndexFixingsManager_exist_fixing(fixMap, index, d)
                   got   == IndexFixingsManager_get_fixing(fixMap, index, d)
                   items == FileItems(Lower(last.key))
               IN  /\ exist.err = "ok"
                   /\ exist.v = InDict(items, d)
                   /\ InDict(items, d) => (got.err = "ok" /\ got.v = GetItem(items, d))

\* C6: after IndexFixingsManager.register(key, value) without a file, whatever value
\* is, exist_fixing(key, d) returns false for every date, and insert_fixing(key, d, v)
\* followed by get_fixing(key, d) returns v
C6_NoFileGivesEmptySeries ==
    (/\ last.reg = "fixings"
     /\ last.op = "register"
     /\ last.err = "ok"
     /\ ~path_exists(Lower(last.key)))
        => \A d \in Dates, x \in Fixings :
               LET exist == IndexFixingsManager_exist_fixing(fixMap, last.key, d)
                   ins   == IndexFixingsManager_insert_fixing_result(fixMap, last.key, d, x)
                   got   == IndexFixingsManager_get_fixing(ins.m, last.key, d)
               IN  /\ exist.err = "ok"
                   /\ ~exist.v
                   /\ ins.err = "ok"
                   /\ got.err = "ok"
                   /\ got.v = x

\* C7: after remove_fixing(index) without a date succeeded, and until the index is
\* registered again, get_fixing, exist_fixing and insert_fixing on that index fail
\* with NotFound for every date, and register(index, _) is not rejected as a duplicate
C7_ErasedIndexIsGoneUntilRegistered ==
    \A index \in erased, d \in Dates :
        /\ IndexFixingsManager_get_fixing(fixMap, index, d).err = "NotFound"
        /\ IndexFixingsManager_exist_fixing(fixMap, index, d).err = "NotFound"
        /\ IndexFixingsManager_insert_fixing_result(fixMap, index, d, 777).err = "NotFound"
        /\ IndexFixingsManager_register_result(fixMap, index, EmptyDict).err # "DuplicateKey"

\* C8: for an index string that exist_fixing accepts, remove_fixing(index, d) with d
\* in the series removes exactly that date (exist_fixing(index, d) is false afterwards,
\* every other date keeps its value); with d not in the series the call fails and
\* the series is unchanged
C8_RemoveFixingRemovesExactlyThatDate ==
    [][\A index \in FixingKeys, d \in Dates :
           (/\ IndexFixingsManager_remove_fixing(index, d)
            /\ IndexFixingsManager_exist_fixing(fixMap, index, d).err = "ok")
               => LET exist == IndexFixingsManager_exist_fixing(fixMap, index, d)
                      after == IndexFixingsManager_exist_fixing(fixMap', index, d)
                  IN  /\ exist.v
                          => /\ last'.err = "ok"
                             /\ after.err = "ok"
                             /\ ~after.v
                             /\ \A d2 \in Dates \ {d} :
                                    IndexFixingsManager_get_fixing(fixMap', index, d2)
                                        = IndexFixingsManager_get_fixing(fixMap, index, d2)
                      /\ ~exist.v
                          => /\ last'.err # "ok"
                             /\ fixMap' = fixMap]_vars

\* C9: DataConventionRegistry.register(key, spec) never modifies the caller's spec:
\* after the call, failed or not, it has the items it had before, "type" included
C9_RegisterLeavesCallerSpecUnmodified ==
    [][\A key \in ConvKeys, value \in ConvSpecs :
           DataConventionRegistry_register(key, value) => callerSpec' = value]_vars

\* a registration went through, which popped "type", and the caller's spec has it
C9_Witness ==
    /\ last.reg = "convention"
    /\ last.op = "register"
    /\ last.err = "ok"
    /\ InDict(callerSpec, "type")
    /\ Lookup(convMap, KeyOf(last)).kind = "convention"
    /\ ~InDict(Lookup(convMap, KeyOf(last)).fields, "type")

\* C10: after a successful DataConventionRegistry.register(key, spec), get(key) is the
\* object the constructor registered for spec["type"] returned for (key, fields),
\* fields being spec without "type"; it is not the raw spec
C10_GetReturnsConstructedConvention ==
    [][\A key \in ConvKeys, value \in ConvSpecs :
           (DataConventionRegistry_register(key, value) /\ last'.err = "ok")
               => LET got == Registry_get(convMap', key) IN
                  /\ got.err = "ok"
                  /\ got.v.kind = "convention"
                  /\ InDict(value, "type")
                  /\ got.v.ctor = Lookup(funMap, GetItem(value, "type"))
                  /\ got.v.key = key
                  /\ got.v.fields = {p \in value : p[1] # "type"}]_vars

\* a convention was registered and get(key) returns a constructed object
C10_Witness ==
    /\ last.reg = "convention"
    /\ last.op = "register"
    /\ last.err = "ok"
    /\ Registry_get(convMap, KeyOf(last)).err = "ok"
    /\ Registry_get(convMap, KeyOf(last)).v.kind = "convention"
    /\ Registry_get(convMap, KeyOf(last)).v.ctor \in Constructors

\* C12 as stated: IndexRegistry.register(key, type_name) fails with UnknownIndexType
\* when the catalog has no type_name, with ConstructionError when the type exists, its
\* parameterless construction fails and the suffix of key is not a tenor; the tenor
\* construction is attempted only when the suffix is a tenor
C12_RegisterFailsByTypeAndSuffix ==
    [][\A key \in IndexKeys, value \in TypeNames :
           IndexRegistry_register(key, value)
               => /\ value \notin QlCatalog => last'.err = "UnknownIndexType"
                  /\ (value \in TenorTypes /\ ~is_term(LastField(key)))
                         => last'.err = "ConstructionError"
                  /\ (\E i \in 1..Len(last'.arg) : last'.arg[i] = "ql_object(Period)")
                         => is_term(LastField(key))]_vars

\* C12, amended: for a key that is not in the store, IndexRegistry.register(key,
\* type_name) fails with UnknownIndexType when the catalog has no type_name, and with
\* ConstructionError when the type exists, its parameterless construction fails and
\* the suffix of key is not a tenor; for a key that is in the store it fails with
\* DuplicateKey before the catalog is consulted; the tenor construction is attempted
\* only when the suffix is a tenor
C12_RegisterOfAbsentKeyFailsByTypeAndSuffix ==
    [][\A key \in IndexKeys, value \in TypeNames :
           IndexRegistry_register(key, value)
               => /\ Has(idxMap, key) => (last'.err = "DuplicateKey" /\ last'.arg = <<>>)
                  /\ (~Has(idxMap, key) /\ value \notin QlCatalog)
                         => last'.err = "UnknownIndexType"
                  /\ (~Has(idxMap, key) /\ value \in TenorTypes /\ ~is_term(LastField(key)))
                         => last'.err = "ConstructionError"
                  /\ (\E i \in 1..Len(last'.arg) : last'.arg[i] = "ql_object(Period)")
                         => is_term(LastField(key))]_vars

\* a register whose parameterless construction failed and whose key has no tenor
\* suffix ended with ConstructionError, the tenor construction not attempted
C12_Witness ==
    /\ last.reg = "index"
    /\ last.op = "register"
    /\ last.err = "ConstructionError"
    /\ ~is_term(LastField(last.key))
    /\ last.arg = <<"getattr", "ql_object()", "is_term">>

\* the display names an index can have here
IndexNames == {<<"Sofr", <<>>>>, <<"USDLibor", <<"3", "M">>>>}

\* C13: look_up_index_name(index) returns the key of the first-inserted stored index
\* whose name is index's name, and get of that key is an index with that name; it
\* fails with NotFound when no stored index has the name, and in no other way
C13_LookUpReturnsFirstKeyWithName ==
    \A name \in IndexNames :
        LET r    == IndexRegistry_look_up_index_name(idxMap, name)
            hits == {i \in 1..Len(idxMap) :
                        idxMap[i].v.kind = "index" /\ IndexName(idxMap[i].v) = name}
        IN  /\ r.err \in {"ok", "NotFound"}
            /\ (r.err = "NotFound") <=> (hits = {})
            /\ r.err = "ok"
                   => /\ \E i \in hits : idxMap[i].k = r.k /\ \A j \in hits : i <= j
                      /\ LET got == IndexRegistry_get(idxMap, r.k) IN
                         /\ got.err = "ok"
                         /\ got.v.kind = "index"
                         /\ IndexName(got.v) = name

\* C15: every value in IndexRegistry's store is a constructed index, never the raw
\* type name, and display_all_indices and look_up_index_name read every entry's name
C15_StoreHoldsOnlyConstructedIndices ==
    /\ \A i \in 1..Len(idxMap) : idxMap[i].v.kind = "index"
    /\ IndexRegistry_display_all_indices(idxMap).err = "ok"
    /\ \A name \in IndexNames :
           IndexRegistry_look_up_index_name(idxMap, name).err # "AttributeError"

\* C16: when get(k) returns an index for a key k of the store, register(k2, type_name)
\* with k2 differing from k only in letter case fails with DuplicateKey and get(k)
\* returns the same object afterwards
C16_CaseVariantNeverReplaces ==
    [][\A k \in IndexKeys, k2 \in IndexKeys, value \in TypeNames :
           (/\ IndexRegistry_register(k2, value)
            /\ k2 # k
            /\ Upper(k2) = Upper(k)
            /\ Has(idxMap, k)
            /\ IndexRegistry_get(idxMap, k).err = "ok"
            /\ IndexRegistry_get(idxMap, k).v.kind = "index")
               => /\ last'.err = "DuplicateKey"
                  /\ IndexRegistry_get(idxMap', k) = IndexRegistry_get(idxMap, k)]_vars

\* C11 as stated: DataConventionRegistry.register(key, spec) with a spec that has no
\* "type" field fails with MissingField, and neither the lookup in
\* DataConventionRegFunction nor a constructor call happens during the call
C11_NoTypeFailsWithMissingField ==
    [][\A key \in ConvKeys, value \in ConvSpecs :
           (DataConventionRegistry_register(key, value) /\ ~InDict(value, "type"))
               => (last'.err = "MissingField" /\ last'.arg = <<>>)]_vars

\* C11, amended: DataConventionRegistry.register(key, spec) with a spec that has no
\* "type" field fails, with MissingField when key is not in the store and with
\* DuplicateKey when it is, and in both cases neither the lookup in
\* DataConventionRegFunction nor a constructor call happens during the call
C11_NoTypeFailsBeforeLookup ==
    [][\A key \in ConvKeys, value \in ConvSpecs :
           (DataConventionRegistry_register(key, value) /\ ~InDict(value, "type"))
               => /\ last'.err = (IF Has(convMap, key) THEN "DuplicateKey" ELSE "MissingField")
                  /\ last'.arg = <<>>]_vars

\* a register of a spec without "type" failed with MissingField while a constructor
\* was registered, and made no lookup
C11_Witness ==
    /\ last.reg = "convention"
    /\ last.op = "register"
    /\ last.err = "MissingField"
    /\ last.arg = <<>>
    /\ ~InDict(callerSpec, "type")
    /\ funMap # <<>>

\* the keys used with the two registries of namespace ''
AnonKeys == ConvTypes \cup IdentKeys

\* C14: in DataConventionRegFunction and DataIdentifierRegistry, register(k, v) for a
\* key k that is not in the store succeeds and get(k) then returns v; a register of
\* a key, in any registry, leaves what get returns for every other key unchanged
C14_PassThroughRoundTrip ==
    [][/\ \A key \in ConvTypes, value \in Constructors :
              DataConventionRegFunction_register(key, value)
                  => /\ ~Has(funMap, key)
                         => /\ last'.err = "ok"
                            /\ Registry_get(funMap', key) = [err |-> "ok", v |-> value]
                     /\ \A k2 \in AnonKeys \ {key} :
                            Registry_get(funMap', k2) = Registry_get(funMap, k2)
       /\ \A key \in IdentKeys, value \in IdentValues :
              DataIdentifierRegistry_register(key, value)
                  => /\ ~Has(idMap, key)
                         => /\ last'.err = "ok"
                            /\ Registry_get(idMap', key) = [err |-> "ok", v |-> value]
                     /\ \A k2 \in AnonKeys \ {key} :
                            Registry_get(idMap', k2) = Registry_get(idMap, k2)
       /\ (last'.op = "register" /\ last'.reg \notin {"function", "identifier"})
              => (funMap' = funMap /\ idMap' = idMap)]_vars

\* an identifier was registered after another key, and get returns both values
C14_Witness ==
    /\ last.reg = "identifier"
    /\ last.op = "register"
    /\ last.err = "ok"
    /\ Len(idMap) = 2
    /\ Registry_get(idMap, KeyOf(last)).err = "ok"
    /\ Registry_get(idMap, KeyOf(last)).v \in IdentValues
    /\ \A i \in 1..2 : Registry_get(idMap, idMap[i].k).v = idMap[i].v

\* C17: a register or erase on one registry changes no entry visible through another
\* registry; in particular what DataConventionRegFunction registers stays absent from
\* DataIdentifierRegistry and the reverse
C17_RegistriesAreIsolated ==
    [][\A reg \in DOMAIN Stores :
           (last'.op \in {"register", "erase"} /\ reg # last'.reg)
               => Stores'[reg] = Stores[reg]]_vars

====
